---- MODULE Spec2Model ----
(***************************************************************************)
(* Model of src/src/main.rs: the Matrix type, the sequential multiplier    *)
(* Matrix::multiply, the parallel multiplier Matrix::multiply_par (one     *)
(* rayon task per output cell writing into a shared buffer), the text      *)
(* form (Display / from_string), main's three modes, a caller of the       *)
(* methods new, get, set and ==, and a multiplication in which every Vec   *)
(* buffer has an identity.                                                 *)
(*                                                                         *)
(* f64 values are modelled by the IEEE-754 values the model can reach:     *)
(* small integers (on which f64 arithmetic is exact), the infinities and   *)
(* NaN.  +0.0 and -0.0 are one value: the code compares elements with      *)
(* f64's ==, under which they are equal.                                   *)
(***************************************************************************)
EXTENDS Integers, Sequences, FiniteSets, TLC

VARIABLES
    mode,     \* main's mode: "Seq", "Par" or "All"; "Text" for the text form alone,
              \* "Calls" for a caller of the methods of Matrix, "Own" for a
              \* multiplication with the Vec buffers told apart
    threads,  \* the number of threads of the pool multiply_par runs in
    a, b,     \* matrix1 and matrix2
    pc,       \* main's position
    panic,    \* the message of the panic that ended main, "none" otherwise
    seqRes,   \* what multiply returned, None before
    result,   \* the shared result of multiply_par, None before it is allocated
    si, sj,   \* the spawn loops' i and j
    task,     \* per output cell: "unspawned", "queued", "running", "done", "panicked"
    writes,   \* per offset of the shared buffer: how many tasks have written it
    parRes,   \* what multiply_par returned, None before
    text,     \* the text fmt produced
    parsed,   \* what from_string returned, None before
    spawns,   \* per output cell: how many tasks multiply_par has spawned for it
    call,     \* the method a caller of Matrix has called last, with its arguments
    ret,      \* the outcome of that call, None when there is none
    heap      \* mode "Own": the elements of every Vec buffer, by the buffer's identity

vars == <<mode, threads, a, b, pc, panic, seqRes, result, si, sj, task, writes,
          parRes, text, parsed, spawns, call, ret, heap>>

(* ------------------------------ bounds -------------------------------- *)

\* largest rows / cols of an input matrix
MaxDim == 3
\* largest rows * cols of an input matrix
MaxLen == 4
\* largest number of output cells (tasks) of one multiplication
MaxTasks == 6
\* largest number of characters of a text given to from_string
MaxText == 5

\* rayon::ThreadPoolBuilder::new().num_threads(4)
NumThreads == 4

(* ------------------------------- f64 ---------------------------------- *)

Fin(n) == [k |-> "fin", v |-> n]
PosInf == [k |-> "inf", v |-> 1]
NegInf == [k |-> "inf", v |-> -1]
NaN == [k |-> "nan", v |-> 0]

Sign(n) == IF n > 0 THEN 1 ELSE IF n < 0 THEN -1 ELSE 0

\* f64 product x * y
FMul(x, y) ==
    IF x.k = "nan" \/ y.k = "nan" THEN NaN
    ELSE IF x.k = "fin" /\ y.k = "fin" THEN Fin(x.v * y.v)
    ELSE IF Sign(x.v) * Sign(y.v) = 0 THEN NaN
    ELSE [k |-> "inf", v |-> Sign(x.v) * Sign(y.v)]

\* f64 sum x + y
FAdd(x, y) ==
    IF x.k = "nan" \/ y.k = "nan" THEN NaN
    ELSE IF x.k = "fin" /\ y.k = "fin" THEN Fin(x.v + y.v)
    ELSE IF x.k = "inf" /\ y.k = "inf" THEN (IF x.v = y.v THEN x ELSE NaN)
    ELSE IF x.k = "inf" THEN x
    ELSE y

\* f64's != (NaN differs from everything, itself included)
FNe(x, y) == x.k = "nan" \/ y.k = "nan" \/ x # y

(* ------------------------------ Matrix -------------------------------- *)

\* the outcome of a call: a value, or a panic and what raised it
Ok(x) == [ok |-> TRUE, val |-> <<x>>, why |-> "none"]
Panic(kind) == [ok |-> FALSE, val |-> <<>>, why |-> kind]
Panicked == Panic("index out of bounds")
None == <<>>
Some(x) == <<x>>

\* no method of Matrix has been called
NoCall == [op |-> "none"]

\* Matrix::new: stores its arguments, whatever the length of vec
new(rows, cols, vec) == [rows |-> rows, cols |-> cols, data |-> vec]

\* a buffer that is not cleared: n elements 1.0
Ones(n) == [x \in 1..n |-> Fin(1)]

\* vec![0.0; n]
Zeros(n) == [x \in 1..n |-> Fin(0)]

\* get with row and col exchanged
getTransposed(self, row, col) ==
    IF col * self.cols + row < Len(self.data)
    THEN Ok(self.data[col * self.cols + row + 1])
    ELSE Panicked

\* Matrix::get: self.data[row * self.cols + col], a panic when out of the Vec
get(self, row, col) ==
    IF row * self.cols + col < Len(self.data)
    THEN Ok(self.data[row * self.cols + col + 1])
    ELSE Panicked

\* an offset that forgets the row stride
SetOffsetNoStride(self, row, col) == row + col

\* the Vec offset Matrix::set writes
SetOffset(self, row, col) == row * self.cols + col

\* self.data[row * self.cols + col] = value panics: the offset is out of the Vec
SetPanics(self, row, col) == SetOffset(self, row, col) >= Len(self.data)

\* the () a method without a result returns
Unit == <<>>

\* Matrix::set on a buffer that holds the offset
set(self, row, col, value) ==
    [self EXCEPT !.data = [self.data EXCEPT ![SetOffset(self, row, col) + 1] = value]]

\* the inner loop: sum += self.get(i, k) * other.get(k, j), k ascending from k0
RECURSIVE DotFrom(_, _, _, _, _, _)
DotFrom(self, other, i, j, k0, sum) ==
    IF k0 >= self.cols THEN Ok(sum)
    ELSE LET x == get(self, i, k0)
             y == get(other, k0, j)
         IN IF ~x.ok \/ ~y.ok THEN Panicked
            ELSE DotFrom(self, other, i, j, k0 + 1,
                         FAdd(sum, FMul(x.val[1], y.val[1])))

\* the loop starting at k = 1
DotFromOne(self, other, i, j) == DotFrom(self, other, i, j, 1, Fin(0))

\* let mut sum = 0.0; for k in 0..self.cols { ... }
Dot(self, other, i, j) == DotFrom(self, other, i, j, 0, Fin(0))

\* the loops for i in 0..self.rows, for j in 0..other.cols, from cell (i, j)
RECURSIVE MultiplyFrom(_, _, _, _, _)
MultiplyFrom(self, other, res, i, j) ==
    IF i >= self.rows THEN Ok(res)
    ELSE IF j >= other.cols THEN MultiplyFrom(self, other, res, i + 1, 0)
    ELSE LET d == Dot(self, other, i, j)
         IN IF ~d.ok THEN Panicked
            ELSE MultiplyFrom(self, other, set(res, i, j, d.val[1]), i, j + 1)

\* no check of the dimensions
assert_dims_skipped(self, other) == TRUE

\* assert_eq!(self.cols, other.rows) passes
assert_dims(self, other) == self.cols = other.rows

\* the task's loop starting at k = 1
TaskSumFromOne(self, other, i, j) == DotFrom(self, other, i, j, 1, Fin(0))

\* the sum a task of multiply_par computes: the same loop, in the spawned closure
TaskSum(self, other, i, j) == DotFrom(self, other, i, j, 0, Fin(0))

\* Matrix::multiply: assert_eq!(self.cols, other.rows), the zeroed result, the loops
multiply(self, other) ==
    IF ~assert_dims(self, other) THEN Panic("assertion failed: left == right")
    ELSE MultiplyFrom(self, other,
                      new(self.rows, other.cols, Zeros(self.rows * other.cols)), 0, 0)

\* PartialEq::eq: dimensions, then self.data[i] != other.data[i] for i over
\* self.data, returning false at the first difference; other.data[i] panics
\* when other.data is the shorter Vec and no earlier element differs
eq(self, other) ==
    IF self.rows # other.rows \/ self.cols # other.cols THEN Ok(FALSE)
    ELSE LET stop == {x \in 1..Len(self.data) :
                         x > Len(other.data) \/ FNe(self.data[x], other.data[x])}
             first == CHOOSE x \in stop : \A y \in stop : x <= y
         IN IF stop = {} THEN Ok(TRUE)
            ELSE IF first > Len(other.data) THEN Panicked
            ELSE Ok(FALSE)

(* ------------------------------- text --------------------------------- *)

Digits == <<"0", "1", "2", "3", "4", "5", "6", "7", "8", "9">>

\* the decimal digits of a natural number
RECURSIVE Decimal(_)
Decimal(n) ==
    IF n < 10 THEN <<Digits[n + 1]>>
    ELSE Decimal(n \div 10) \o <<Digits[(n % 10) + 1]>>

\* "{}" of an f64: 1.0 prints as 1, the infinities as inf / -inf, NaN as NaN
FmtF64(x) ==
    IF x.k = "nan" THEN <<"N", "a", "N">>
    ELSE IF x.k = "inf"
         THEN (IF x.v < 0 THEN <<"-">> ELSE <<>>) \o <<"i", "n", "f">>
    ELSE (IF x.v < 0 THEN <<"-">> ELSE <<>>) \o Decimal(IF x.v < 0 THEN -x.v ELSE x.v)

\* the inner loop of fmt: write!(f, "{} ", self.data[i * self.cols + j]), from column j
RECURSIVE FmtRow(_, _, _)
FmtRow(self, i, j) ==
    IF j >= self.cols THEN Ok(<<>>)
    ELSE IF i * self.cols + j >= Len(self.data) THEN Panicked
    ELSE LET rest == FmtRow(self, i, j + 1)
         IN IF ~rest.ok THEN Panicked
            ELSE Ok(FmtF64(self.data[i * self.cols + j + 1]) \o <<" ">> \o rest.val[1])

\* Display::fmt: every row followed by "\n", from row i
RECURSIVE FmtFrom(_, _)
FmtFrom(self, i) ==
    IF i >= self.rows THEN Ok(<<>>)
    ELSE LET row == FmtRow(self, i, 0)
             rest == FmtFrom(self, i + 1)
         IN IF ~row.ok \/ ~rest.ok THEN Panicked
            ELSE Ok(row.val[1] \o <<"\n">> \o rest.val[1])

fmt(self) == FmtFrom(self, 0)

\* the index of the first c in s, 0 when there is none
FirstIndex(s, c) ==
    IF \E x \in 1..Len(s) : s[x] = c
    THEN CHOOSE x \in 1..Len(s) : s[x] = c /\ \A y \in 1..(x - 1) : s[y] # c
    ELSE 0

\* str::lines: split at "\n"; a final line break opens no further line
RECURSIVE lines(_)
lines(s) ==
    IF s = <<>> THEN <<>>
    ELSE LET n == FirstIndex(s, "\n")
         IN IF n = 0 THEN <<s>>
            ELSE <<SubSeq(s, 1, n - 1)>> \o lines(SubSeq(s, n + 1, Len(s)))

\* str::split(" "): the pieces between single spaces, empty pieces included
RECURSIVE split(_)
split(s) ==
    LET n == FirstIndex(s, " ")
    IN IF n = 0 THEN <<s>>
       ELSE <<SubSeq(s, 1, n - 1)>> \o split(SubSeq(s, n + 1, Len(s)))

IsDigit(c) == \E d \in 1..10 : Digits[d] = c
DigitValue(c) == (CHOOSE d \in 1..10 : Digits[d] = c) - 1

\* the value of a digit string read left to right
RECURSIVE DecimalValue(_, _)
DecimalValue(s, acc) ==
    IF s = <<>> THEN acc
    ELSE DecimalValue(Tail(s), acc * 10 + DigitValue(Head(s)))

\* a parse that reads what is not a number as 0.0
ParseUnsignedLenient(s) ==
    IF s = <<"i", "n", "f">> THEN Ok(PosInf)
    ELSE IF s = <<"N", "a", "N">> THEN Ok(NaN)
    ELSE IF s # <<>> /\ \A x \in 1..Len(s) : IsDigit(s[x]) THEN Ok(Fin(DecimalValue(s, 0)))
    ELSE Ok(Fin(0))

\* str::parse::<f64> on the tokens this alphabet can spell: an optional "-",
\* then digits, inf or NaN; anything else, the empty token included, is an Err
ParseUnsigned(s) ==
    IF s = <<"i", "n", "f">> THEN Ok(PosInf)
    ELSE IF s = <<"N", "a", "N">> THEN Ok(NaN)
    ELSE IF s # <<>> /\ \A x \in 1..Len(s) : IsDigit(s[x]) THEN Ok(Fin(DecimalValue(s, 0)))
    ELSE Panic("Not a number")

FNeg(x) == IF x.k = "nan" THEN x ELSE [x EXCEPT !.v = -x.v]

ParseF64(s) ==
    IF s # <<>> /\ Head(s) = "-"
    THEN LET r == ParseUnsigned(Tail(s))
         IN IF r.ok THEN Ok(FNeg(r.val[1])) ELSE r
    ELSE ParseUnsigned(s)

\* for num_str in splitted { data.push(num_str.parse::<f64>().expect(..)) }
RECURSIVE PushTokens(_, _)
PushTokens(data, toks) ==
    IF toks = <<>> THEN Ok(data)
    ELSE LET r == ParseF64(Head(toks))
         IN IF ~r.ok THEN r
            ELSE PushTokens(Append(data, r.val[1]), Tail(toks))

\* the loop of from_string over the remaining lines
RECURSIVE FromLines(_, _, _, _)
FromLines(ls, rows, cols, data) ==
    IF ls = <<>> THEN Ok([rows |-> rows, cols |-> cols, data |-> data])
    ELSE LET splitted == split(Head(ls))
         IN IF Len(splitted) = 0 THEN FromLines(Tail(ls), rows, cols, data)
            ELSE IF cols # 0 /\ cols # Len(splitted) THEN Panic("Cannot read matrix")
            ELSE LET pushed == PushTokens(data, splitted)
                 IN IF ~pushed.ok THEN pushed
                    ELSE FromLines(Tail(ls), rows + 1, Len(splitted), pushed.val[1])

from_string(s) == FromLines(lines(s), 0, 0, <<>>)


(* ------------------------------ inputs -------------------------------- *)

\* the element values inputs are drawn from
Vals == {Fin(0), Fin(1), PosInf}

\* the matrix! macro: rows and cols from the nested array, data its flat_map
RECURSIVE Flatten(_)
Flatten(nested) == IF nested = <<>> THEN <<>> ELSE Head(nested) \o Flatten(Tail(nested))

matrix(nested) ==
    IF nested = <<>> THEN new(0, 0, <<>>)
    ELSE new(Len(nested), Len(nested[1]), Flatten(nested))

\* the matrices the tests multiply
TestMatrices ==
    { matrix(<< <<Fin(1), Fin(0)>>, <<Fin(0), Fin(1)>> >>),
      matrix(<< <<Fin(1), Fin(4)>>, <<Fin(2), Fin(3)>> >>),
      matrix(<< <<Fin(1), Fin(0)>> >>),
      matrix(<< <<Fin(1)>>, <<Fin(2)>> >>),
      matrix(<< <<Fin(1), Fin(2)>>, <<Fin(3), Fin(4)>> >>),
      matrix(<< <<Fin(1)>> >>),
      matrix(<<>>) }

\* every Matrix of at most MaxDim rows and columns and MaxLen elements over Vals,
\* as from_string and random build them (data of length rows * cols)
Shapes == { s \in (0..MaxDim) \X (0..MaxDim) : s[1] * s[2] <= MaxLen }
MatsOver(V) ==
    UNION { { new(s[1], s[2], d) : d \in [1..(s[1] * s[2]) -> V] } : s \in Shapes }
Mats == MatsOver(Vals)

\* Matrix::new called with a Vec one short or one long of rows * cols
OddMats ==
    UNION { { new(s[1], s[2], [x \in 1..n |-> Fin(1)]) : n \in { s[1] * s[2] - 1, s[1] * s[2] + 1 } } :
            s \in (1..2) \X (1..2) }

\* the identity matrix of size n
Identity(n) ==
    new(n, n, [x \in 1..(n * n) |-> IF (x - 1) \div n = (x - 1) % n THEN Fin(1) ELSE Fin(0)])

\* the tests' matrices, the identity matrices and the matrices without elements
Basic ==
    TestMatrices
    \cup { m \in Mats : m.rows = 0 \/ m.cols = 0 }
    \cup { Identity(n) : n \in { n \in 1..MaxDim : n * n <= MaxLen } }

\* the pairs main multiplies: one operand of Basic and the other any of M,
\* or a test matrix and one of OddMats; at most MaxTasks output cells
InputsOver(M) ==
    { p \in (Basic \X M) \cup (M \X Basic) \cup (Basic \X Basic)
             \cup (OddMats \X TestMatrices) \cup (TestMatrices \X OddMats) :
        p[1].rows * p[2].cols <= MaxTasks }
Inputs == InputsOver(Mats)

(* ------------------------------- main --------------------------------- *)

Cells == { c \in (0..(a.rows - 1)) \X (0..(b.cols - 1)) : TRUE }

\* the pool sizes multiply_par is run in: main's and the tests' 4 threads, and 1
PoolSizes == {1, NumThreads}

InitOver(inputs) ==
    /\ mode \in {"Seq", "Par", "All"}
    /\ threads \in (IF mode = "Seq" THEN {NumThreads} ELSE PoolSizes)
    /\ \E p \in inputs : a = p[1] /\ b = p[2]
    /\ pc = "start"
    /\ panic = "none"
    /\ seqRes = None
    /\ result = None
    /\ si = 0
    /\ sj = 0
    /\ task = [c \in Cells |-> "unspawned"]
    /\ writes = <<>>
    /\ parRes = None
    /\ text = <<>>
    /\ parsed = None
    /\ spawns = [c \in Cells |-> 0]
    /\ call = NoCall
    /\ ret = None
    /\ heap = <<>>

Init == InitOver(Inputs)

\* main, modes Seq and All: matrix1.multiply(&matrix2)
CallMultiply ==
    /\ pc = "start"
    /\ mode \in {"Seq", "All"}
    /\ LET r == multiply(a, b)
       IN IF r.ok
          THEN /\ seqRes' = Some(r.val[1])
               /\ pc' = "seq_done"
               /\ panic' = panic
          ELSE /\ seqRes' = seqRes
               /\ pc' = "panicked"
               /\ panic' = r.why
    /\ UNCHANGED <<mode, threads, a, b, result, si, sj, task, writes, parRes, text, parsed, spawns, call, ret, heap>>

\* main is about to call multiply_par: at once in mode Par, after multiply in mode All
AtParCall == IF mode = "Par" THEN pc = "start" ELSE mode = "All" /\ pc = "seq_done"

\* multiply_par up to rayon::scope: the assert_eq! and the zeroed shared result
ParEnter ==
    /\ AtParCall
    /\ IF ~assert_dims(a, b)
       THEN /\ pc' = "panicked"
            /\ panic' = "assertion failed: left == right"
            /\ UNCHANGED <<result, writes>>
       ELSE /\ pc' = "spawning"
            /\ panic' = panic
            /\ result' = Some(new(a.rows, b.cols, Zeros(a.rows * b.cols)))
            /\ writes' = [x \in 1..(a.rows * b.cols) |-> 0]
    /\ si' = 0
    /\ sj' = 0
    /\ UNCHANGED <<mode, threads, a, b, seqRes, task, parRes, text, parsed, spawns, call, ret, heap>>

\* a loop over j that does not start again at 0 in the next row
NextCellNoReset(i, j) == IF j + 1 < b.cols THEN <<i, j + 1>> ELSE <<i + 1, j>>

\* the loop position after (i, j): the next j, or the next row with columns
NextCell(i, j) == IF j + 1 < b.cols THEN <<i, j + 1>> ELSE <<i + 1, 0>>

\* the spawn loops have a cell left: for i in 0..self.rows, for j in 0..other.cols
SpawnLeft == si < a.rows /\ sj < b.cols

\* one s.spawn(move |_| ...) of the scope closure, for cell (si, sj)
Spawn ==
    /\ pc = "spawning"
    /\ SpawnLeft
    /\ task' = [task EXCEPT ![<<si, sj>>] = "queued"]
    /\ spawns' = [spawns EXCEPT ![<<si, sj>>] = @ + 1]
    /\ si' = NextCell(si, sj)[1]
    /\ sj' = NextCell(si, sj)[2]
    /\ UNCHANGED <<mode, threads, a, b, pc, panic, seqRes, result, writes, parRes, text, parsed, call, ret, heap>>

\* the scope closure returns: its thread now waits for the spawned tasks
ScopeBodyEnd ==
    /\ pc = "spawning"
    /\ ~SpawnLeft
    /\ pc' = "joining"
    /\ UNCHANGED <<mode, threads, a, b, panic, seqRes, result, si, sj, task, writes, parRes, text, parsed, spawns, call, ret, heap>>

Running == { c \in Cells : task[c] = "running" }

\* the pool's threads that are executing: the running tasks and, while it
\* spawns, the thread pool.install runs the scope closure on
Busy == Cardinality(Running) + (IF pc = "spawning" THEN 1 ELSE 0)

\* the scope's thread never takes a task itself
ThreadFreeBesideScope == Cardinality(Running) + 1 < threads

\* a pool that starts every task at once
ThreadFreeAlways == TRUE

\* a thread of the pool may take a task
ThreadFree == Busy < threads

\* a pool thread takes a queued task
TaskStart(c) ==
    /\ pc \in {"spawning", "joining"}
    /\ task[c] = "queued"
    /\ ThreadFree
    /\ task' = [task EXCEPT ![c] = "running"]
    /\ UNCHANGED <<mode, threads, a, b, pc, panic, seqRes, result, si, sj, writes, parRes, text, parsed, spawns, call, ret, heap>>

\* the task body for cell c: the dot product, then (*result.as_ptr()).set(i, j, sum);
\* a panicking get ends the task without a write
TaskRun(c) ==
    /\ pc \in {"spawning", "joining"}
    /\ task[c] = "running"
    /\ LET d == TaskSum(a, b, c[1], c[2])
           off == SetOffset(result[1], c[1], c[2])
       IN IF d.ok
          THEN /\ result' = Some(set(result[1], c[1], c[2], d.val[1]))
               /\ writes' = [writes EXCEPT ![off + 1] = @ + 1]
               /\ task' = [task EXCEPT ![c] = "done"]
          ELSE /\ task' = [task EXCEPT ![c] = "panicked"]
               /\ UNCHANGED <<result, writes>>
    /\ UNCHANGED <<mode, threads, a, b, pc, panic, seqRes, si, sj, parRes, text, parsed, spawns, call, ret, heap>>

\* a scope that is only left by a task's completion
AllTasksEndedBySome == \E c \in Cells : task[c] \in {"done", "panicked"}

\* a scope that does not wait for its tasks
AllTasksEndedNoWait == TRUE

\* rayon::scope returns once every spawned task has ended
AllTasksEnded == \A c \in Cells : task[c] \in {"unspawned", "done", "panicked"}

\* a scope that drops its tasks' panics
SomeTaskPanickedDropped == FALSE

\* rayon::scope resumes the panic of a task that panicked
SomeTaskPanicked == \E c \in Cells : task[c] = "panicked"

\* the end of rayon::scope and the return: unsafe { (*result.as_ptr()).clone() }
Join ==
    /\ pc = "joining"
    /\ AllTasksEnded
    /\ IF SomeTaskPanicked
       THEN /\ pc' = "panicked"
            /\ panic' = "index out of bounds"
            /\ parRes' = parRes
       ELSE /\ pc' = "par_done"
            /\ panic' = panic
            /\ parRes' = Some(result[1])
    /\ UNCHANGED <<mode, threads, a, b, seqRes, result, si, sj, task, writes, text, parsed, spawns, call, ret, heap>>

\* main, mode All: assert_eq!(matrix_res_seq, matrix_res_par)
Compare ==
    /\ mode = "All"
    /\ pc = "par_done"
    /\ LET r == eq(seqRes[1], parRes[1])
       IN IF r.ok /\ r.val[1]
          THEN pc' = "compared" /\ panic' = panic
          ELSE pc' = "panicked" /\ panic' = "assertion failed: left == right"
    /\ UNCHANGED <<mode, threads, a, b, seqRes, result, si, sj, task, writes, parRes, text, parsed, spawns, call, ret, heap>>

\* the matrix main writes: the only result in modes Seq and Par, the parallel one in All
AtWrite ==
    IF mode = "Seq" THEN pc = "seq_done"
    ELSE IF mode = "Par" THEN pc = "par_done"
    ELSE pc = "compared"

Written == IF mode = "Seq" THEN seqRes[1] ELSE parRes[1]

\* write_to_file: format!("{}", self) into output.txt
WriteToFile ==
    /\ AtWrite
    /\ text' = fmt(Written).val[1]
    /\ pc' = "done"
    /\ UNCHANGED <<mode, threads, a, b, panic, seqRes, result, si, sj, task, writes, parRes, parsed, spawns, call, ret, heap>>

Next ==
    \/ CallMultiply
    \/ ParEnter
    \/ Spawn
    \/ ScopeBodyEnd
    \/ \E c \in Cells : TaskStart(c)
    \/ \E c \in Cells : TaskRun(c)
    \/ Join
    \/ Compare
    \/ WriteToFile

Spec == Init /\ [][Next]_vars

\* The same program under fair scheduling: main's thread and the pool's threads
\* keep running, so a step that can be taken is taken.  Whether a call ends does
\* not depend on the finite values multiplied: the operands varied are those of
\* ones, with the tests' matrices, the identities, the empty and the odd ones.
FairInit == InitOver(InputsOver(MatsOver({Fin(1)})))
FairSpec == FairInit /\ [][Next]_vars /\ WF_vars(Next)


(* ---------------------------- the text form --------------------------- *)

\* a matrix to write and read back
TextInit ==
    /\ mode = "Text"
    /\ threads = NumThreads
    /\ a \in Mats \cup TestMatrices
    /\ b = a
    /\ pc = "fmt"
    /\ panic = "none"
    /\ seqRes = None
    /\ result = None
    /\ si = 0
    /\ sj = 0
    /\ task = [c \in Cells |-> "unspawned"]
    /\ writes = <<>>
    /\ parRes = None
    /\ text = <<>>
    /\ parsed = None
    /\ spawns = [c \in Cells |-> 0]
    /\ call = NoCall
    /\ ret = None
    /\ heap = <<>>

\* format!("{}", a)
CallFmt ==
    /\ mode = "Text"
    /\ pc = "fmt"
    /\ text' = fmt(a).val[1]
    /\ pc' = "parse"
    /\ UNCHANGED <<mode, threads, a, b, panic, seqRes, result, si, sj, task, writes, parRes, parsed, spawns, call, ret, heap>>

\* Matrix::from_string(&text)
CallFromString ==
    /\ mode = "Text"
    /\ pc = "parse"
    /\ LET r == from_string(text)
       IN IF r.ok
          THEN /\ parsed' = Some(r.val[1])
               /\ pc' = "parsed"
               /\ panic' = panic
          ELSE /\ parsed' = parsed
               /\ pc' = "panicked"
               /\ panic' = r.why
    /\ UNCHANGED <<mode, threads, a, b, seqRes, result, si, sj, task, writes, parRes, text, spawns, call, ret, heap>>

TextNext ==
    \/ CallFmt
    \/ CallFromString

SpecText == TextInit /\ [][TextNext]_vars

\* from_string on any text: the characters are a digit, a sign, a letter, the
\* space and the line break
Alphabet == {"1", "-", "x", " ", "\n"}
Texts == UNION { [1..n -> Alphabet] : n \in 0..MaxText }

ParseInit ==
    /\ mode = "Text"
    /\ threads = NumThreads
    /\ a = matrix(<<>>)
    /\ b = a
    /\ pc = "parse"
    /\ panic = "none"
    /\ seqRes = None
    /\ result = None
    /\ si = 0
    /\ sj = 0
    /\ task = [c \in Cells |-> "unspawned"]
    /\ writes = <<>>
    /\ parRes = None
    /\ text \in Texts
    /\ parsed = None
    /\ spawns = [c \in Cells |-> 0]
    /\ call = NoCall
    /\ ret = None
    /\ heap = <<>>

ParseNext == CallFromString

SpecParse == ParseInit /\ [][ParseNext]_vars

(* --------------------------- the methods ----------------------------- *)

\* A caller that owns the Matrix a and calls its methods one after the other,
\* as the tests and main do: get, set and ==, and Matrix::new for a new a.
\* A panic ends it.

\* the arguments Matrix::new is called with: a shape, and a Vec of rows * cols
\* elements, of one less or of one more
NewArgs ==
    UNION { { <<s[1], s[2], [x \in 1..n |-> Fin(1)]>> :
                n \in { s[1] * s[2] - 1, s[1] * s[2], s[1] * s[2] + 1 } \cap (0..(MaxLen + 1)) } :
            s \in Shapes }

\* the matrices a is compared with
Others == TestMatrices \cup OddMats \cup {a}

CallsInit ==
    /\ mode = "Calls"
    /\ threads = NumThreads
    /\ a \in Mats \cup TestMatrices
    /\ b = matrix(<<>>)
    /\ pc = "idle"
    /\ panic = "none"
    /\ seqRes = None
    /\ result = None
    /\ si = 0
    /\ sj = 0
    /\ task = [c \in Cells |-> "unspawned"]
    /\ writes = <<>>
    /\ parRes = None
    /\ text = <<>>
    /\ parsed = None
    /\ spawns = [c \in Cells |-> 0]
    /\ call = NoCall
    /\ ret = None
    /\ heap = <<>>

\* where the caller is after a call with outcome r
AfterCall(r) ==
    /\ ret' = Some(r)
    /\ pc' = IF r.ok THEN "returned" ELSE "panicked"
    /\ panic' = IF r.ok THEN panic ELSE r.why

\* a = Matrix::new(rows, cols, vec)
CallNew(rows, cols, vec) ==
    /\ mode = "Calls"
    /\ pc = "idle"
    /\ call' = [op |-> "new", rows |-> rows, cols |-> cols, vec |-> vec]
    /\ AfterCall(Ok(new(rows, cols, vec)))
    /\ a' = new(rows, cols, vec)
    /\ UNCHANGED <<mode, threads, b, seqRes, result, si, sj, task, writes, parRes, text, parsed, spawns, heap>>

\* a.get(row, col)
CallGet(row, col) ==
    /\ mode = "Calls"
    /\ pc = "idle"
    /\ call' = [op |-> "get", row |-> row, col |-> col]
    /\ AfterCall(get(a, row, col))
    /\ UNCHANGED <<mode, threads, a, b, seqRes, result, si, sj, task, writes, parRes, text, parsed, spawns, heap>>

\* a.set(row, col, value)
CallSet(row, col, value) ==
    /\ mode = "Calls"
    /\ pc = "idle"
    /\ call' = [op |-> "set", row |-> row, col |-> col, value |-> value]
    /\ IF SetPanics(a, row, col)
       THEN AfterCall(Panicked) /\ a' = a
       ELSE AfterCall(Ok(Unit)) /\ a' = set(a, row, col, value)
    /\ UNCHANGED <<mode, threads, b, seqRes, result, si, sj, task, writes, parRes, text, parsed, spawns, heap>>

\* a == other
CallEq(other) ==
    /\ mode = "Calls"
    /\ pc = "idle"
    /\ call' = [op |-> "eq", other |-> other]
    /\ AfterCall(eq(a, other))
    /\ UNCHANGED <<mode, threads, a, b, seqRes, result, si, sj, task, writes, parRes, text, parsed, spawns, heap>>

\* the caller goes on to its next statement
Resume ==
    /\ mode = "Calls"
    /\ pc = "returned"
    /\ pc' = "idle"
    /\ call' = NoCall
    /\ ret' = None
    /\ UNCHANGED <<mode, threads, a, b, panic, seqRes, result, si, sj, task, writes, parRes, text, parsed, spawns, heap>>

CallsNext ==
    \/ \E n \in NewArgs : CallNew(n[1], n[2], n[3])
    \/ \E row \in 0..MaxDim, col \in 0..MaxDim : CallGet(row, col)
    \/ \E row \in 0..MaxDim, col \in 0..MaxDim, value \in Vals : CallSet(row, col, value)
    \/ \E other \in Others : CallEq(other)
    \/ Resume

SpecCalls == CallsInit /\ [][CallsNext]_vars

(* ---------------------------- the buffers ---------------------------- *)

\* A multiplication with every Vec told apart from every other: in mode "Own"
\* the data of a Matrix is the identity of its buffer, and heap gives the
\* elements each buffer holds.  a owns buffer 1 and b buffer 2; the caller
\* multiplies them with multiply or multiply_par and then sets an element of
\* the Matrix it got back.  multiply takes one cell per step in the order of
\* its loops; multiply_par spawns, starts and runs its tasks as in main.

\* the Matrix value behind m: its rows and cols, and the elements of its buffer
Deref(h, m) == [rows |-> m.rows, cols |-> m.cols, data |-> h[m.data]]

\* a buffer no Vec holds yet: what vec![..] and clone allocate
NewBuf(h) == Cardinality(DOMAIN h) + 1

\* a product computed in place, in the buffer of self
ResultBufInPlace(h, self, other) == self.data

\* the buffer of the result: vec![0.0; self.rows * other.cols], a new one
ResultBuf(h, self, other) == NewBuf(h)

\* the heap with the elements vec in buffer id
Store(h, id, vec) == [x \in DOMAIN h \cup {id} |-> IF x = id THEN vec ELSE h[x]]

OwnInit ==
    /\ mode = "Own"
    /\ threads = NumThreads
    /\ \E p \in Inputs :
          /\ a = new(p[1].rows, p[1].cols, 1)
          /\ b = new(p[2].rows, p[2].cols, 2)
          /\ heap = <<p[1].data, p[2].data>>
    /\ pc = "start"
    /\ panic = "none"
    /\ seqRes = None
    /\ result = None
    /\ si = 0
    /\ sj = 0
    /\ task = [c \in Cells |-> "unspawned"]
    /\ writes = <<>>
    /\ parRes = None
    /\ text = <<>>
    /\ parsed = None
    /\ spawns = [c \in Cells |-> 0]
    /\ call = NoCall
    /\ ret = None

\* multiply and multiply_par up to their loops: the assert_eq!, and the result
\* Matrix::new(self.rows, other.cols, vec![0.0; self.rows * other.cols]);
\* no cell has been computed and no task spawned
OwnEnter(op) ==
    /\ mode = "Own"
    /\ pc = "start"
    /\ call' = [op |-> op]
    /\ IF ~assert_dims(a, b)
       THEN /\ pc' = "panicked"
            /\ panic' = "assertion failed: left == right"
            /\ UNCHANGED <<result, heap>>
       ELSE /\ pc' = IF op = "multiply" THEN "looping" ELSE "spawning"
            /\ panic' = panic
            /\ result' = Some(new(a.rows, b.cols, ResultBuf(heap, a, b)))
            /\ heap' = Store(heap, ResultBuf(heap, a, b), Zeros(a.rows * b.cols))
    /\ si' = 0
    /\ sj' = 0
    /\ UNCHANGED <<mode, threads, a, b, seqRes, task, writes, parRes, text, parsed, spawns, ret>>

\* one pass of the loops of multiply, for cell (si, sj): the sum read from self
\* and other through get, and result.set(i, j, sum); a panicking get ends it
OwnLoopCell ==
    /\ mode = "Own"
    /\ pc = "looping"
    /\ SpawnLeft
    /\ LET d == Dot(Deref(heap, a), Deref(heap, b), si, sj)
           written == set(Deref(heap, result[1]), si, sj, d.val[1])
       IN IF d.ok
          THEN /\ heap' = Store(heap, result[1].data, written.data)
               /\ si' = NextCell(si, sj)[1]
               /\ sj' = NextCell(si, sj)[2]
               /\ UNCHANGED <<pc, panic>>
          ELSE /\ pc' = "panicked"
               /\ panic' = d.why
               /\ UNCHANGED <<heap, si, sj>>
    /\ UNCHANGED <<mode, threads, a, b, seqRes, result, task, writes, parRes, text, parsed, spawns, call, ret>>

\* multiply returns: its loops are over and it hands its result to the caller
OwnMultiplyReturn ==
    /\ mode = "Own"
    /\ pc = "looping"
    /\ ~SpawnLeft
    /\ pc' = "returned"
    /\ ret' = Some(Ok(result[1]))
    /\ UNCHANGED <<mode, threads, a, b, panic, seqRes, result, si, sj, task, writes, parRes, text, parsed, spawns, call, heap>>

\* the task body for cell c, in the buffers: the sum read from self and other
\* through get, then (*result.as_ptr()).set(i, j, sum); a panicking get ends
\* the task without a write
OwnTaskRun(c) ==
    /\ mode = "Own"
    /\ pc \in {"spawning", "joining"}
    /\ task[c] = "running"
    /\ LET d == TaskSum(Deref(heap, a), Deref(heap, b), c[1], c[2])
           written == set(Deref(heap, result[1]), c[1], c[2], d.val[1])
       IN IF d.ok
          THEN /\ heap' = Store(heap, result[1].data, written.data)
               /\ task' = [task EXCEPT ![c] = "done"]
          ELSE /\ heap' = heap
               /\ task' = [task EXCEPT ![c] = "panicked"]
    /\ UNCHANGED <<mode, threads, a, b, pc, panic, seqRes, result, si, sj, writes, parRes, text, parsed, spawns, call, ret>>

\* the end of rayon::scope and the return of multiply_par: a clone of the
\* shared result, which has a buffer of its own
OwnJoin ==
    /\ mode = "Own"
    /\ pc = "joining"
    /\ AllTasksEnded
    /\ IF SomeTaskPanicked
       THEN /\ pc' = "panicked"
            /\ panic' = "index out of bounds"
            /\ UNCHANGED <<ret, heap>>
       ELSE /\ pc' = "returned"
            /\ panic' = panic
            /\ ret' = Some(Ok(new(result[1].rows, result[1].cols, NewBuf(heap))))
            /\ heap' = Store(heap, NewBuf(heap), heap[result[1].data])
    /\ UNCHANGED <<mode, threads, a, b, seqRes, result, si, sj, task, writes, parRes, text, parsed, spawns, call>>

\* the caller sets an element of the Matrix it got back
OwnSetReturned(row, col, value) ==
    /\ mode = "Own"
    /\ pc = "returned"
    /\ LET m == ret[1].val[1]
       IN IF SetPanics(Deref(heap, m), row, col)
          THEN /\ pc' = "panicked"
               /\ panic' = "index out of bounds"
               /\ heap' = heap
          ELSE /\ pc' = "modified"
               /\ panic' = panic
               /\ heap' = Store(heap, m.data, set(Deref(heap, m), row, col, value).data)
    /\ UNCHANGED <<mode, threads, a, b, seqRes, result, si, sj, task, writes, parRes, text, parsed, spawns, call, ret>>

\* the spawn loops, the scope closure's end and the start of a task are the
\* steps Spawn, ScopeBodyEnd and TaskStart of multiply_par: they touch no buffer
OwnNext ==
    \/ \E op \in {"multiply", "multiply_par"} : OwnEnter(op)
    \/ OwnLoopCell
    \/ OwnMultiplyReturn
    \/ Spawn
    \/ ScopeBodyEnd
    \/ \E c \in Cells : TaskStart(c)
    \/ \E c \in Cells : OwnTaskRun(c)
    \/ OwnJoin
    \/ \E row \in 0..MaxDim, col \in 0..MaxDim, value \in Vals : OwnSetReturned(row, col, value)

SpecOwn == OwnInit /\ [][OwnNext]_vars

(* ------------------------------ claims -------------------------------- *)

\* data holds exactly rows * cols elements
WellFormed(m) == Len(m.data) = m.rows * m.cols

\* every element is a finite number
AllFinite(m) == \A x \in 1..Len(m.data) : m.data[x].k = "fin"

\* multiply has been called
SeqCalled == mode \in {"Seq", "All"} /\ pc # "start"

\* C1: whenever multiply and multiply_par have both returned, for whatever order
\* the pool ran the tasks in, the two matrices have the same rows, the same cols
\* and identical elements.
C1_ParEqualsSeq ==
    (seqRes # None /\ parRes # None) =>
        /\ parRes[1].rows = seqRes[1].rows
        /\ parRes[1].cols = seqRes[1].cols
        /\ parRes[1].data = seqRes[1].data

C1_Witness ==
    /\ seqRes # None
    /\ parRes # None
    /\ Len(parRes[1].data) > NumThreads
    /\ a.cols > 0

\* C2: once multiply_par has handed back its result, every task it spawned has
\* completed and written its slot: none is unspawned, queued or running.
C2_ReturnAfterAllTasks ==
    parRes # None =>
        /\ \A c \in Cells : task[c] = "done"
        /\ \A x \in 1..Len(writes) : writes[x] >= 1

C2_Witness ==
    /\ parRes # None
    /\ Cardinality(Cells) > NumThreads

\* C3: tasks of distinct cells write distinct offsets of the shared buffer, and no
\* offset is ever written more than once.
C3_NoWriteConflict ==
    /\ \A x \in 1..Len(writes) : writes[x] <= 1
    /\ result # None =>
          \A c, d \in Cells :
              c # d => SetOffset(result[1], c[1], c[2]) # SetOffset(result[1], d[1], d[2])

C3_Witness ==
    /\ pc = "joining"
    /\ Len(writes) > NumThreads
    /\ \A x \in 1..Len(writes) : writes[x] = 1

\* main has ended: its last statement has run, or a panic has ended it
MainOver == pc \in {"done", "parsed", "panicked"}

\* multiply_par is between its entry and its return
InParCall == pc \in {"spawning", "joining"}

\* C4: under fair scheduling, in a pool of one thread as in one of four, a call
\* of multiply_par that has passed its assertion comes to its end: every task
\* ends and the join is passed; with operands whose data holds rows * cols
\* elements the end is a return.
C4_ParCallEnds ==
    /\ InParCall ~> (parRes # None \/ pc = "panicked")
    /\ (InParCall /\ WellFormed(a) /\ WellFormed(b)) ~> (parRes # None)

C4_Witness ==
    /\ parRes # None
    /\ threads = 1
    /\ Cardinality(Cells) > NumThreads

\* one of the operands has no rows or no columns, and the inner dimensions agree
ZeroSized == a.cols = b.rows /\ (a.rows = 0 \/ a.cols = 0 \/ b.rows = 0 \/ b.cols = 0)

\* C5 as stated: multiplying by a matrix with 0 rows or 0 columns returns, from
\* multiply and from multiply_par, rows = a.rows, cols = b.cols and empty data,
\* without a panic and without a state that cannot go on.
C5_ZeroSizedEmptyData ==
    ZeroSized =>
        /\ pc # "panicked"
        /\ MainOver \/ ENABLED Next
        /\ seqRes # None => seqRes[1] = new(a.rows, b.cols, <<>>)
        /\ parRes # None => parRes[1] = new(a.rows, b.cols, <<>>)

\* C5, amended: the result has rows = a.rows, cols = b.cols and a.rows * b.cols
\* elements, all 0.0: no element when a.rows = 0 or b.cols = 0, zeros when only
\* the inner dimension is 0; in both paths and both pool sizes there is no panic
\* and no state that cannot go on, and the call returns.
C5_ZeroSizedZeros ==
    ZeroSized =>
        /\ pc # "panicked"
        /\ MainOver \/ ENABLED Next
        /\ SeqCalled => seqRes # None
        /\ seqRes # None => seqRes[1] = new(a.rows, b.cols, [x \in 1..(a.rows * b.cols) |-> Fin(0)])
        /\ parRes # None => parRes[1] = new(a.rows, b.cols, [x \in 1..(a.rows * b.cols) |-> Fin(0)])
        /\ (a.rows = 0 \/ b.cols = 0) =>
              /\ seqRes # None => seqRes[1].data = <<>>
              /\ parRes # None => parRes[1].data = <<>>
        /\ pc = "done" => (mode = "Seq" \/ parRes # None)

C5_Witness ==
    /\ ZeroSized
    /\ a.rows = 0
    /\ b.rows > 0
    /\ threads = 1
    /\ pc = "done"
    /\ seqRes # None
    /\ parRes # None

\* the sum of a[i,k] * b[k,j] for k = 0 .. n-1, added in increasing k to 0.0
RECURSIVE SumTo(_, _, _)
SumTo(i, j, n) ==
    IF n = 0 THEN Fin(0)
    ELSE FAdd(SumTo(i, j, n - 1),
              FMul(a.data[i * a.cols + n], b.data[(n - 1) * b.cols + j + 1]))

OneToFour == << <<Fin(1), Fin(2)>>, <<Fin(3), Fin(4)>> >>

\* C6: with a.cols = b.rows, multiply returns (for operands whose data holds
\* rows * cols elements) a matrix of a.rows rows and b.cols columns whose element
\* (i, j) is the sum over increasing k, from 0.0, of a[i,k] * b[k,j];
\* [[1,2],[3,4]] squared is [[7,10],[15,22]] and [[1,0]] times [[1],[2]] is [[1]].
C6_MultiplyIsDotProducts ==
    /\ (SeqCalled /\ a.cols = b.rows /\ WellFormed(a) /\ WellFormed(b)) => seqRes # None
    /\ seqRes # None =>
          /\ seqRes[1].rows = a.rows
          /\ seqRes[1].cols = b.cols
          /\ Len(seqRes[1].data) = a.rows * b.cols
          /\ \A i \in 0..(a.rows - 1), j \in 0..(b.cols - 1) :
                seqRes[1].data[i * b.cols + j + 1] = SumTo(i, j, a.cols)
    /\ (SeqCalled /\ a = matrix(OneToFour) /\ b = matrix(OneToFour)) =>
          seqRes = Some(matrix(<< <<Fin(7), Fin(10)>>, <<Fin(15), Fin(22)>> >>))
    /\ (SeqCalled /\ a = matrix(<< <<Fin(1), Fin(0)>> >>) /\ b = matrix(<< <<Fin(1)>>, <<Fin(2)>> >>)) =>
          seqRes = Some(matrix(<< <<Fin(1)>> >>))

C6_Witness ==
    /\ seqRes # None
    /\ a = matrix(OneToFour)
    /\ b = matrix(OneToFour)

\* C7: when a.cols # b.rows, the one step main can take ends it with the failed
\* assertion on the dimensions: neither multiply nor multiply_par produces a
\* matrix, no shared result is allocated, no task is spawned, and a and b are as
\* they were.
C7_MismatchFails ==
    [][a.cols # b.rows =>
          /\ pc' = "panicked"
          /\ panic' = "assertion failed: left == right"
          /\ seqRes' = None
          /\ parRes' = None
          /\ result' = None
          /\ \A c \in Cells : task'[c] = "unspawned"
          /\ a' = a
          /\ b' = b]_vars

C7_Witness ==
    /\ a.cols # b.rows
    /\ mode = "Par"
    /\ pc = "panicked"
    /\ a.rows > 0
    /\ b.cols > 0

\* C8: when a task of multiply_par has panicked, multiply_par hands back no
\* matrix: main goes no further than the call, and once the scope has ended main
\* has ended with that panic.
C8_TaskPanicPropagates ==
    (\E c \in Cells : task[c] = "panicked") =>
        /\ parRes = None
        /\ pc \in {"spawning", "joining", "panicked"}
        /\ pc = "panicked" => panic = "index out of bounds"

C8_Witness ==
    /\ \E c \in Cells : task[c] = "panicked"
    /\ pc = "panicked"
    /\ \E c \in Cells : task[c] = "done"

\* the product has returned and == finds it equal to m
ProductsEqual(m) ==
    /\ seqRes # None => eq(seqRes[1], m) = Ok(TRUE)
    /\ parRes # None => eq(parRes[1], m) = Ok(TRUE)

IsIdentity(m) == m.rows > 0 /\ m = Identity(m.rows)

\* a square matrix of the size of the identity matrix i
SquareLike(m, i) == m.rows = i.rows /\ m.cols = i.rows /\ WellFormed(m)

\* C9 as stated: for every square M and the identity I of its size, both
\* multiply and multiply_par give I * M == M and M * I == M.
C9_IdentityLaw ==
    /\ (IsIdentity(a) /\ SquareLike(b, a)) =>
          (ProductsEqual(b) /\ (SeqCalled => seqRes # None))
    /\ (IsIdentity(b) /\ SquareLike(a, b)) =>
          (ProductsEqual(a) /\ (SeqCalled => seqRes # None))

\* C9, amended: the same for every square M whose elements are all finite.
C9_IdentityLawFinite ==
    /\ (IsIdentity(a) /\ SquareLike(b, a) /\ AllFinite(b)) =>
          (ProductsEqual(b) /\ (SeqCalled => seqRes # None))
    /\ (IsIdentity(b) /\ SquareLike(a, b) /\ AllFinite(a)) =>
          (ProductsEqual(a) /\ (SeqCalled => seqRes # None))

C9_Witness ==
    /\ IsIdentity(a)
    /\ a.rows > 1
    /\ b = matrix(OneToFour)
    /\ seqRes # None
    /\ parRes # None

\* C10, for the matrices M that have an element: from_string of the text fmt
\* writes for M returns a matrix, and it is equal to M.
C10_RoundTrip ==
    (mode = "Text" /\ MainOver /\ a.rows > 0 /\ a.cols > 0) =>
        /\ parsed # None
        /\ eq(parsed[1], a) = Ok(TRUE)

\* C11 as stated: Matrix::new fails whenever the Vec it is given does not hold
\* rows * cols elements, so the matrix a caller owns always holds rows * cols.
C11_NewChecksLength ==
    /\ (call.op = "new" /\ ret # None /\ Len(call.vec) # call.rows * call.cols) =>
          ~ret[1].ok
    /\ mode = "Calls" => WellFormed(a)

\* a token that is a floating-point literal: an optional "-", then digits, inf
\* or NaN
IsLiteral(tok) ==
    LET body == IF tok # <<>> /\ tok[1] = "-" THEN Tail(tok) ELSE tok
    IN \/ body = <<"i", "n", "f">>
       \/ body = <<"N", "a", "N">>
       \/ body # <<>> /\ \A x \in 1..Len(body) : body[x] \in {Digits[d] : d \in 1..10}

\* a line of s has another number of tokens than the first, or a token of s is
\* no floating-point literal
BadText(s) ==
    \E l \in 1..Len(lines(s)) :
        \/ Len(split(lines(s)[l])) # Len(split(lines(s)[1]))
        \/ \E t \in 1..Len(split(lines(s)[l])) : ~IsLiteral(split(lines(s)[l])[t])

\* the number of tokens of the lines ls
RECURSIVE TokenCount(_)
TokenCount(ls) == IF ls = <<>> THEN 0 ELSE Len(split(Head(ls))) + TokenCount(Tail(ls))

\* C12: from_string of a text in which a line's token count differs from the
\* first line's, or a token is no floating-point literal, ends in the panic of
\* from_string and returns no matrix; a matrix it returns has a row for every
\* line and an element for every token.
C12_BadTextPanics ==
    (mode = "Text" /\ MainOver) =>
        /\ BadText(text) =>
              /\ pc = "panicked"
              /\ parsed = None
              /\ panic \in {"Cannot read matrix", "Not a number"}
        /\ parsed # None =>
              /\ parsed[1].rows = Len(lines(text))
              /\ Len(parsed[1].data) = TokenCount(lines(text))
              /\ parsed[1].rows > 0 => parsed[1].cols = Len(split(lines(text)[1]))

C12_Witness ==
    /\ mode = "Text"
    /\ pc = "panicked"
    /\ panic = "Cannot read matrix"
    /\ \A t \in 1..Len(split(lines(text)[1])) : IsLiteral(split(lines(text)[1])[t])
    /\ Len(split(lines(text)[1])) > 1

\* the same rows, the same cols and equal elements at every position
SameMatrix(m, n) ==
    /\ m.rows = n.rows
    /\ m.cols = n.cols
    /\ Len(m.data) = Len(n.data)
    /\ \A x \in 1..Len(m.data) : ~FNe(m.data[x], n.data[x])

\* C13 as stated: for any two matrices == returns a boolean, and it is true
\* exactly when they have the same rows, the same cols and equal elements at
\* every position.
C13_EqIsTotalAndExact ==
    (call.op = "eq" /\ ret # None) =>
        /\ ret[1].ok
        /\ ret[1].val[1] <=> SameMatrix(a, call.other)

\* C14: in every state of a multiply_par call, however many tasks have been
\* spawned, the tasks that are executing are at most as many as the pool has
\* threads, the thread that runs the spawn loops counted with them.
C14_RunningWithinPool ==
    /\ Cardinality(Running) <= threads
    /\ Busy <= threads
    /\ pc = "spawning" => Cardinality(Running) < threads

C14_Witness ==
    /\ threads = NumThreads
    /\ Cardinality(Running) = NumThreads
    /\ \E c \in Cells : task[c] = "queued"

\* the scope closure of multiply_par has returned: every s.spawn has been made
SpawnsOver == result # None /\ pc # "spawning"

\* C16: multiply_par never spawns two tasks for a cell, a cell has a task
\* exactly when one was spawned for it, and once its spawn loops are over it has
\* spawned one task for every cell (i, j) with i < a.rows and j < b.cols:
\* a.rows * b.cols tasks.
C16_OneTaskPerCell ==
    /\ DOMAIN spawns = Cells
    /\ \A c \in Cells :
          /\ spawns[c] <= 1
          /\ task[c] = "unspawned" <=> spawns[c] = 0
    /\ SpawnsOver =>
          /\ \A i \in 0..(a.rows - 1), j \in 0..(b.cols - 1) : spawns[<<i, j>>] = 1
          /\ Cardinality({c \in Cells : spawns[c] = 1}) = a.rows * b.cols

C16_Witness ==
    /\ pc = "joining"
    /\ a.rows > 1
    /\ b.cols > 1
    /\ Cardinality({c \in Cells : spawns[c] = 1}) > NumThreads

\* C17: the shared result of multiply_par exists before any task is spawned,
\* with rows = a.rows, cols = b.cols and a.rows * b.cols elements, all 0.0 until
\* the first task has written; in every state the slot of cell (i, j) holds the
\* sum, in increasing k from 0.0, of a[i,k] * b[k,j] when the cell's task has
\* written it, and 0.0 otherwise.
C17_SlotsZeroOrFinal ==
    /\ (\E c \in Cells : task[c] # "unspawned") => result # None
    /\ result # None =>
          /\ result[1].rows = a.rows
          /\ result[1].cols = b.cols
          /\ Len(result[1].data) = a.rows * b.cols
          /\ (\A c \in Cells : task[c] = "unspawned") =>
                \A x \in 1..Len(result[1].data) : result[1].data[x] = Fin(0)
          /\ \A i \in 0..(a.rows - 1), j \in 0..(b.cols - 1) :
                result[1].data[i * b.cols + j + 1] =
                    IF task[<<i, j>>] = "done" THEN SumTo(i, j, a.cols) ELSE Fin(0)

C17_Witness ==
    /\ pc = "joining"
    /\ result # None
    /\ \E c \in Cells :
          /\ task[c] = "done"
          /\ result[1].data[c[1] * b.cols + c[2] + 1] \notin {Fin(0), Fin(1)}
    /\ \E c \in Cells : task[c] = "running"
    /\ \E c \in Cells : task[c] = "queued"

\* C18 as stated: a call a.set(row, col, value) with row < a.rows and
\* col < a.cols returns, with value at offset row * cols + col, where
\* get(row, col) reads it, and with rows, cols, the length of data and every
\* other element as before; the data still holds rows * cols elements.
C18_SetChangesOneElement ==
    [][(pc = "idle" /\ call'.op = "set" /\ call'.row < a.rows /\ call'.col < a.cols) =>
          /\ ret'[1].ok
          /\ a'.rows = a.rows
          /\ a'.cols = a.cols
          /\ Len(a'.data) = Len(a.data)
          /\ a'.data[call'.row * a.cols + call'.col + 1] = call'.value
          /\ get(a', call'.row, call'.col) = Ok(call'.value)
          /\ \A x \in 1..Len(a.data) :
                x # call'.row * a.cols + call'.col + 1 => a'.data[x] = a.data[x]
          /\ Len(a'.data) = a'.rows * a'.cols]_vars

\* C19, for the matrices whose data holds rows * cols elements: a call of get
\* or set with row >= rows or col >= cols fails.
C19_OutOfRangeFails ==
    (/\ call.op \in {"get", "set"}
     /\ ret # None
     /\ WellFormed(a)
     /\ (call.row >= a.rows \/ call.col >= a.cols)) =>
        ~ret[1].ok

\* the buffers of the two inputs
InputBufs == {a.data, b.data}

\* C15: no step of a multiply or multiply_par call, and no later set on the
\* Matrix the call returned, changes rows, cols or an element of a or of b: the
\* result the call writes and the Matrix it returns have buffers that are
\* neither a's nor b's.
C15_InputsUnchanged ==
    [][/\ a' = a
       /\ b' = b
       /\ heap'[a.data] = heap[a.data]
       /\ heap'[b.data] = heap[b.data]
       /\ result' # None => result'[1].data \notin InputBufs
       /\ ret' # None => ret'[1].val[1].data \notin InputBufs]_vars

C15_Witness ==
    /\ pc = "modified"
    /\ call.op = "multiply_par"
    /\ Cardinality(Cells) > 1
    /\ Len(heap[ret[1].val[1].data]) = Len(heap[a.data])
    /\ heap[ret[1].val[1].data] # heap[result[1].data]
    /\ heap[result[1].data] # heap[a.data]

====
